---- MODULE Spec2Model ----
(***************************************************************************)
(* Model of the ROV sample-retrieval-system control library                *)
(* (ROV_SRS_Library.py) and of the constants ROV_SRS_Main.py passes to it. *)
(*                                                                         *)
(* Numbers.  Python floats are modelled as exact fixed-point integers:     *)
(*   - time is counted in units of 1/Second of a second, Second being      *)
(*     chosen so that every period, width bound and tolerance of the       *)
(*     configurations below is a whole number of units;                    *)
(*   - duty cycles and tolerances are in tenths of a percent (14.1 % is    *)
(*     141), so the code's x/100 is x \div 1000 here;                      *)
(*   - stroke lengths are in tenths of an inch, potentiometer readings in  *)
(*     1/PotScale of full scale.                                           *)
(* Floating-point rounding is not modelled.                                *)
(* `is` on the small integers -1..2 is equality in CPython.                *)
(***************************************************************************)
EXTENDS Integers, Sequences, FiniteSets, TLC

VARIABLES
    pc,         \* position of the running library call ("idle" between calls)
    fn,         \* the move_* function called last ("none" before the first)
    cmd,        \* the cmd argument of the running move_* call
    gripper,    \* the gripper argument of the running move_carousel call
    col,        \* __col / __index of the running output loop
    steps,      \* __steps of move_carousel
    pot_pos,    \* __pot_pos of move_linear
    la_out,     \* levels of PIN_LA_OUT[0..1]
    cs_out,     \* levels of PIN_CS_OUT[0..1]  (DIR, STEP)
    ss_out,     \* levels of PIN_SS_OUT[0..1]  (DIR, STEP)
    wr,         \* the last GPIO.output call of the running call, or <<>>
    pulses,     \* number of times the running call has written STEP high
    ret,        \* <<value returned by the last move_* call>>, <<>> for None
    mpc,        \* position of main's polling loop
    cycle,      \* the stages main has run in the current loop iteration
    live,       \* the classifications appended to the history since startup
    in_width,   \* set_position: the width argument
    in_cfg,     \* the freq [Hz], max, min, tol [0.1 %] arguments
    pos_cmd,    \* <<value returned by set_position>>, <<>> before the call
    in_hist,    \* check_trend: the hist argument
    in_cont,    \* check_trend: the cont argument
    trend,      \* <<value returned by check_trend>>, <<>> before the call
    gw,         \* position of the running get_width call
    i,          \* get_width: loop index
    measured,   \* get_width: __pwm_width as measured (line 97)
    pwm_width,  \* get_width: __pwm_width as accumulated (line 107)
    avg         \* get_width: avg

pinVars   == <<la_out, cs_out, ss_out>>
ctlVars   == <<pc, fn, cmd, gripper, col, steps, pot_pos, pinVars, wr,
               pulses, ret>>
mainVars  == <<mpc, cycle, live>>
classVars == <<in_width, pos_cmd>>
trendVars == <<in_hist, in_cont, trend>>
widthVars == <<gw, i, measured, pwm_width, avg>>
vars == <<ctlVars, classVars, in_cfg, trendVars, widthVars, mainVars>>

(***************************************************************************)
(* Constants of the program.                                               *)
(***************************************************************************)
LOW  == 0
HIGH == 1
Levels == {LOW, HIGH}

Invalid == -1
Min == 0
Mid == 1
Max == 2
Commands == {Invalid, Min, Mid, Max}

LA_MAX_STROKE == 20             \* 2.0 inch
CS_STEP_ANGLE == 18             \* 1.8 degrees

LA_COMMANDS == << <<HIGH, LOW>>,    \* Extend Actuator.
                  <<LOW, LOW>>,     \* Hold Actuator.
                  <<LOW, HIGH>> >>  \* Retract Actuator.

CS_COMMANDS == << <<LOW, LOW>>,     \* Hold Stepper in place.
                  <<LOW, LOW>>,     \* Hold Stepper in place.
                  <<LOW, HIGH>> >>  \* Take one Step CW.

SS_COMMANDS == << <<HIGH, HIGH>>,   \* Take one Step CCW.
                  <<LOW, LOW>>,     \* Hold Stepper in place.
                  <<LOW, HIGH>> >>  \* Take one Step CW.

PWM_AVG_NUM  == 5
PWM_WID_FREQ == 70
PWM_WID_MAX  == 141             \* 14.1 %
PWM_WID_MIN  == 69              \* 6.9 %
PWM_WID_TOL  == 250             \* 25.0 %
POS_HIST_NUM == 5
LA_STROKE_TARGET == 15          \* 1.5 inch
CS_GRIPPER_NUM == 2

LA_CONTINUOUS == FALSE
CS_CONTINUOUS == FALSE
SS_CONTINUOUS == TRUE

OutLen == 2                     \* len(out): every PIN_*_OUT has two pins

(***************************************************************************)
(* Bounds of the model.                                                    *)
(***************************************************************************)
PotScale   == 4       \* potentiometer readings are 0..PotScale (= 0.0..1.0)
MaxGripper == 3       \* move_carousel is called with 1..MaxGripper grippers

MaxWidth   == 2100    \* set_position is called with widths 0..MaxWidth
MaxMeasure == 26      \* pulses of up to MaxMeasure grid steps are measured
MaxHistLen == 5       \* check_trend is called with 1..MaxHistLen entries
MaxMainPulse == 4     \* main measures pulses of 2..MaxMainPulse quarter bands
MaxPolls   == 6       \* the poll loop is followed for MaxPolls iterations

Grippers == 1..MaxGripper
PotReadings == 0..PotScale

\* One second in time units; a period of either frequency below is a
\* multiple of 1000 * PWM_AVG_NUM units.
Second == PWM_WID_FREQ * 5000
Freqs  == {PWM_WID_FREQ \div 2, PWM_WID_FREQ}
Duties == {PWM_WID_MIN, PWM_WID_MAX}
Tols   == {0, PWM_WID_TOL, 3 * PWM_WID_TOL}
\* every configuration, misconfigured ones (max <= min, overlapping bands) too
Configs == [freq : Freqs, max : Duties, min : Duties, tol : Tols]
\* the configurations on which get_width terminates
WidthConfigs == {c \in Configs : c.max > c.min /\ c.tol > 0}
Widths == 0..MaxWidth
MeasuredWidths == {500 * k : k \in 1..MaxMeasure}
Histories == UNION {[1..n -> Commands] : n \in 1..MaxHistLen}

(***************************************************************************)
(* Python list indexing: a negative index counts from the end, an index    *)
(* outside -len..len-1 raises IndexError.                                  *)
(***************************************************************************)
PyValid(list, k) == k >= -Len(list) /\ k < Len(list)
PyGet(list, k) == IF k >= 0 THEN list[k + 1] ELSE list[Len(list) + k + 1]

\* GPIO.output(out[k], level) on a pin pair
Output(out, k, level) == [out EXCEPT ![k] = level]


(***************************************************************************)
(* Initial values of the variables a specification does not use.           *)
(***************************************************************************)
CtlIdle ==
    /\ pc = "idle" /\ fn = "none" /\ cmd = Mid /\ gripper = CS_GRIPPER_NUM
    /\ col = 0 /\ steps = 0 /\ pot_pos = 0 /\ wr = <<>>
    /\ pulses = 0 /\ ret = <<>>
    /\ la_out = [k \in 0..1 |-> LOW]
    /\ cs_out = [k \in 0..1 |-> LOW]
    /\ ss_out = [k \in 0..1 |-> LOW]
MainCfg == [freq |-> PWM_WID_FREQ, max |-> PWM_WID_MAX,
            min |-> PWM_WID_MIN, tol |-> PWM_WID_TOL]
ClassIdle == in_width = 0 /\ pos_cmd = <<>>
TrendIdle == in_hist = <<Mid>> /\ in_cont = FALSE /\ trend = <<>>
WidthIdle == gw = "idle" /\ i = 0 /\ measured = 0 /\ pwm_width = 0 /\ avg = 0
MainIdle == mpc = "off" /\ cycle = <<>> /\ live = <<>>

(***************************************************************************)
(* The actuator controllers: move_linear, move_carousel, move_shoulder.    *)
(* A caller invokes them in any order with any command; every GPIO.output  *)
(* is one step.  time.sleep changes no state and is part of the step       *)
(* before it.                                                              *)
(***************************************************************************)
UPPER_LIM == PotScale                                          \* 1.0
LOWER_LIM(stroke) == PotScale - (PotScale * stroke) \div LA_MAX_STROKE

\* line 241: the guard of the motion branch of move_linear
LinearMoves(c) == c >= 0
\* line 244: LA_COMMANDS[__col][cmd]
LinearIndexOk(c, k) ==
    PyValid(LA_COMMANDS, k) /\ PyValid(PyGet(LA_COMMANDS, k), c)
LinearLevel(c, k) == PyGet(PyGet(LA_COMMANDS, k), c)
\* line 283: the guard of the stepping branch of move_carousel
CarouselSteps(c) == c = 2
\* line 287: CS_COMMANDS[cmd][__col]
CarouselLevel(c, k) == PyGet(PyGet(CS_COMMANDS, c), k)
\* mutant: the gripper count is left out of the step count
path_steps_full_turn(g) == (360 * 10) \div CS_STEP_ANGLE
\* line 281: int(((1/float(gripper))*360)/CS_STEP_ANGLE)
path_steps(g) == ((360 * 10) \div g) \div CS_STEP_ANGLE
\* mutant: every command but Mid steps
ShoulderSteps_not_mid(c) == c # 1
\* line 316: the guard of the stepping branch of move_shoulder
ShoulderSteps(c) == c = 2 \/ c = 0
\* mutant: the shoulder steps from the carousel's table
ShoulderLevel_carousel_table(c, k) == PyGet(PyGet(CS_COMMANDS, c), k)
\* line 318: SS_COMMANDS[cmd][__col]
ShoulderLevel(c, k) == PyGet(PyGet(SS_COMMANDS, c), k)
\* line 326: the pins the hold branch of move_shoulder writes low
ShoulderHoldPins == {1}

InitCtl ==
    /\ pc = "idle" /\ fn = "none" /\ cmd = Mid /\ gripper = CS_GRIPPER_NUM
    /\ col = 0 /\ steps = 0 /\ pot_pos = 0 /\ wr = <<>>
    /\ pulses = 0 /\ ret = <<>>
    /\ la_out \in [0..1 -> Levels]
    /\ cs_out \in [0..1 -> Levels]
    /\ ss_out \in [0..1 -> Levels]

Init ==
    InitCtl /\ in_cfg = MainCfg /\ ClassIdle /\ TrendIdle /\ WidthIdle /\ MainIdle

otherVars == <<classVars, in_cfg, trendVars, widthVars, mainVars>>

\* move_linear(cmd, out, pot, stroke): lines 236-241
call_move_linear ==
    /\ pc = "idle"
    /\ \E c \in Commands :
        /\ cmd' = c
        /\ pc' = IF LinearMoves(c) THEN "la_drive" ELSE "la_hold"
    /\ fn' = "move_linear" /\ pot_pos' = 0 /\ col' = 0 /\ wr' = <<>>
    /\ pulses' = 0 /\ ret' = <<>>
    /\ UNCHANGED <<gripper, steps, pinVars, otherVars>>

\* lines 243-244: one pass of "Begin Linear Actuator motion"
la_drive ==
    /\ pc = "la_drive"
    /\ IF LinearIndexOk(cmd, col)
       THEN /\ la_out' = Output(la_out, col, LinearLevel(cmd, col))
            /\ wr' = <<"la", col, LinearLevel(cmd, col)>>
            /\ col' = col + 1
            /\ pc' = IF col + 1 < OutLen THEN "la_drive" ELSE "la_poll"
       ELSE /\ pc' = "raised"                       \* IndexError
            /\ UNCHANGED <<la_out, wr, col>>
    /\ UNCHANGED <<fn, cmd, gripper, steps, pot_pos, cs_out, ss_out, otherVars,
                 pulses, ret>>

\* lines 247-255: "Check Potentiometer Signal"; ADC.read twice per pass,
\* the second reading is the one kept
la_poll ==
    /\ pc = "la_poll"
    /\ IF \/ (cmd = 2 /\ pot_pos > LOWER_LIM(LA_STROKE_TARGET))
          \/ (cmd = 0 /\ pot_pos < UPPER_LIM)
       THEN /\ \E r1 \in PotReadings, r2 \in PotReadings : pot_pos' = r2
            /\ UNCHANGED <<pc, col>>
       ELSE /\ pc' = "la_hold" /\ col' = 0
            /\ UNCHANGED pot_pos
    /\ UNCHANGED <<fn, cmd, gripper, steps, pinVars, wr, otherVars,
                 pulses, ret>>

\* lines 259-260: "Hold Linear Actuator at desired Position"
la_hold ==
    /\ pc = "la_hold"
    /\ la_out' = Output(la_out, col, LOW)
    /\ wr' = <<"la", col, LOW>>
    /\ col' = col + 1
    /\ pc' = IF col + 1 < OutLen THEN "la_hold" ELSE "idle"
    /\ UNCHANGED <<fn, cmd, gripper, steps, pot_pos, cs_out, ss_out, otherVars,
                 pulses, ret>>

\* move_carousel(cmd, out, gripper): lines 281-285, 293
call_move_carousel ==
    /\ pc = "idle"
    /\ \E c \in Commands, g \in Grippers :
        /\ cmd' = c /\ gripper' = g
        /\ pc' = IF CarouselSteps(c)
                 THEN (IF 0 < path_steps(g) THEN "cs_step" ELSE "idle")
                 ELSE "cs_hold"
    /\ fn' = "move_carousel" /\ steps' = 0 /\ col' = 0 /\ wr' = <<>>
    /\ pulses' = 0 /\ ret' = <<>>
    /\ UNCHANGED <<pot_pos, pinVars, otherVars>>

\* lines 286-288: assert the pins of one step
cs_step ==
    /\ pc = "cs_step"
    /\ cs_out' = Output(cs_out, col, CarouselLevel(cmd, col))
    /\ wr' = <<"cs", col, CarouselLevel(cmd, col)>>
    /\ pulses' = IF col = 1 /\ CarouselLevel(cmd, col) = HIGH
                 THEN pulses + 1 ELSE pulses
    /\ UNCHANGED ret
    /\ IF col + 1 < OutLen
       THEN col' = col + 1 /\ pc' = "cs_step"
       ELSE col' = 0 /\ pc' = "cs_low"
    /\ UNCHANGED <<fn, cmd, gripper, steps, pot_pos, la_out, ss_out, otherVars>>

\* lines 290-291, 285: de-assert STEP, next step of the burst
cs_low ==
    /\ pc = "cs_low"
    /\ cs_out' = Output(cs_out, 1, LOW)
    /\ wr' = <<"cs", 1, LOW>>
    /\ steps' = steps + 1
    /\ pc' = IF steps + 1 < path_steps(gripper) THEN "cs_step" ELSE "idle"
    /\ UNCHANGED <<fn, cmd, gripper, col, pot_pos, la_out, ss_out, otherVars,
                 pulses, ret>>

\* lines 295-296: "Hold Carousel Stepper at desired Position"
cs_hold ==
    /\ pc = "cs_hold"
    /\ cs_out' = Output(cs_out, col, LOW)
    /\ wr' = <<"cs", col, LOW>>
    /\ col' = col + 1
    /\ pc' = IF col + 1 < OutLen THEN "cs_hold" ELSE "idle"
    /\ UNCHANGED <<fn, cmd, gripper, steps, pot_pos, la_out, ss_out, otherVars,
                 pulses, ret>>

\* move_shoulder(cmd, out): line 316
call_move_shoulder ==
    /\ pc = "idle"
    /\ \E c \in Commands :
        /\ cmd' = c
        /\ pc' = IF ShoulderSteps(c) THEN "ss_step" ELSE "ss_hold"
    /\ fn' = "move_shoulder" /\ col' = 0 /\ wr' = <<>>
    /\ pulses' = 0 /\ ret' = <<>>
    /\ UNCHANGED <<gripper, steps, pot_pos, pinVars, otherVars>>

\* mutant: the pins of a step are written from the last to the first
ss_step_step_first ==
    /\ pc = "ss_step"
    /\ ss_out' = Output(ss_out, OutLen - 1 - col,
                        ShoulderLevel(cmd, OutLen - 1 - col))
    /\ wr' = <<"ss", OutLen - 1 - col, ShoulderLevel(cmd, OutLen - 1 - col)>>
    /\ pulses' = IF OutLen - 1 - col = 1
                    /\ ShoulderLevel(cmd, OutLen - 1 - col) = HIGH
                 THEN pulses + 1 ELSE pulses
    /\ UNCHANGED ret
    /\ IF col + 1 < OutLen
       THEN col' = col + 1 /\ pc' = "ss_step"
       ELSE col' = 0 /\ pc' = "ss_low"
    /\ UNCHANGED <<fn, cmd, gripper, steps, pot_pos, la_out, cs_out, otherVars>>

\* lines 317-319: assert the pins of one step
ss_step ==
    /\ pc = "ss_step"
    /\ ss_out' = Output(ss_out, col, ShoulderLevel(cmd, col))
    /\ wr' = <<"ss", col, ShoulderLevel(cmd, col)>>
    /\ pulses' = IF col = 1 /\ ShoulderLevel(cmd, col) = HIGH
                 THEN pulses + 1 ELSE pulses
    /\ UNCHANGED ret
    /\ IF col + 1 < OutLen
       THEN col' = col + 1 /\ pc' = "ss_step"
       ELSE col' = 0 /\ pc' = "ss_low"
    /\ UNCHANGED <<fn, cmd, gripper, steps, pot_pos, la_out, cs_out, otherVars>>

\* lines 321-322: de-assert STEP
ss_low ==
    /\ pc = "ss_low"
    /\ ss_out' = Output(ss_out, 1, LOW)
    /\ wr' = <<"ss", 1, LOW>>
    /\ pc' = "idle"
    /\ UNCHANGED <<fn, cmd, gripper, col, steps, pot_pos, la_out, cs_out, otherVars,
                 pulses, ret>>

\* line 326: "Hold Shoulder Stepper at desired Position"
ss_hold ==
    /\ pc = "ss_hold"
    /\ ss_out' = [k \in 0..1 |-> IF k \in ShoulderHoldPins THEN LOW ELSE ss_out[k]]
    /\ wr' = <<"ss", 1, LOW>>
    /\ pc' = "idle"
    /\ UNCHANGED <<fn, cmd, gripper, col, steps, pot_pos, la_out, cs_out, otherVars,
                 pulses, ret>>

Next ==
    \/ call_move_linear \/ la_drive \/ la_poll \/ la_hold
    \/ call_move_carousel \/ cs_step \/ cs_low \/ cs_hold
    \/ call_move_shoulder \/ ss_step \/ ss_low \/ ss_hold

Spec == Init /\ [][Next]_vars

TypeOK ==
    /\ pc \in {"idle", "raised", "la_drive", "la_poll", "la_hold",
               "cs_step", "cs_low", "cs_hold", "ss_step", "ss_low", "ss_hold"}
    /\ cmd \in Commands
    /\ la_out \in [0..1 -> Levels]
    /\ cs_out \in [0..1 -> Levels]
    /\ ss_out \in [0..1 -> Levels]

(***************************************************************************)
(* set_position: the Position Classifier.                                  *)
(***************************************************************************)
Period(freq) == Second \div freq                               \* 1/freq
\* lines 79-81 and 145-147
WIDTH_MAX(freq, max) == (Period(freq) * max) \div 1000
WIDTH_MIN(freq, min) == (Period(freq) * min) \div 1000
WIDTH_TOL(freq, max, min, tol) ==
    ((WIDTH_MAX(freq, max) - WIDTH_MIN(freq, min)) * tol) \div 1000

\* mutant: the Mid band is tested before the Max band
set_position_mid_first(width, freq, max, min, tol) ==
    IF width >= WIDTH_MIN(freq, min) + WIDTH_TOL(freq, max, min, tol) THEN 1
    ELSE IF width >= WIDTH_MAX(freq, max) - WIDTH_TOL(freq, max, min, tol) THEN 2
    ELSE IF width >= WIDTH_MIN(freq, min) - WIDTH_TOL(freq, max, min, tol) THEN 0
    ELSE -1

\* mutant: the Max band is closed above at width_max + tol
set_position_bounded(width, freq, max, min, tol) ==
    IF width > WIDTH_MAX(freq, max) + WIDTH_TOL(freq, max, min, tol) THEN -1
    ELSE IF width >= WIDTH_MAX(freq, max) - WIDTH_TOL(freq, max, min, tol) THEN 2
    ELSE IF width >= WIDTH_MIN(freq, min) + WIDTH_TOL(freq, max, min, tol) THEN 1
    ELSE IF width >= WIDTH_MIN(freq, min) - WIDTH_TOL(freq, max, min, tol) THEN 0
    ELSE -1

\* lines 149-159
set_position(width, freq, max, min, tol) ==
    IF width >= WIDTH_MAX(freq, max) - WIDTH_TOL(freq, max, min, tol) THEN 2
    ELSE IF width >= WIDTH_MIN(freq, min) + WIDTH_TOL(freq, max, min, tol) THEN 1
    ELSE IF width >= WIDTH_MIN(freq, min) - WIDTH_TOL(freq, max, min, tol) THEN 0
    ELSE -1

InitClassify ==
    /\ MainIdle /\ CtlIdle /\ TrendIdle /\ WidthIdle
    /\ in_cfg \in Configs
    /\ in_width \in Widths
    /\ pos_cmd = <<>>

classify ==
    /\ pos_cmd = <<>>
    /\ pos_cmd' = <<set_position(in_width, in_cfg.freq, in_cfg.max,
                                 in_cfg.min, in_cfg.tol)>>
    /\ UNCHANGED <<ctlVars, in_width, in_cfg, trendVars, widthVars, mainVars>>

NextClassify == classify

SpecClassify == InitClassify /\ [][NextClassify]_vars

(***************************************************************************)
(* check_trend: the Command Debouncer.  hist is a sequence, hist[k + 1]    *)
(* being the code's hist[k].                                               *)
(***************************************************************************)
RECURSIVE StartScan_through_mid(_, _)
\* mutant: the oldest half runs through the midpoint entry
StartScan_through_mid(h, start_index) ==
    IF start_index <= Len(h) \div 2
    THEN IF h[start_index + 1] = h[1]
         THEN StartScan_through_mid(h, start_index + 1)
         ELSE FALSE
    ELSE TRUE

RECURSIVE StartScan(_, _)
\* lines 193-197: the value of __start_flag after the loop
StartScan(h, start_index) ==
    IF start_index < Len(h) \div 2
    THEN IF h[start_index + 1] = h[1]
         THEN StartScan(h, start_index + 1)
         ELSE FALSE
    ELSE TRUE

RECURSIVE EndScan_skip_mid(_, _)
\* mutant: the newest half stops short of the midpoint entry
EndScan_skip_mid(h, end_index) ==
    IF end_index > Len(h) \div 2
    THEN IF h[end_index + 1] = h[Len(h)]
         THEN EndScan_skip_mid(h, end_index - 1)
         ELSE FALSE
    ELSE TRUE

RECURSIVE EndScan(_, _)
\* lines 200-204: the value of __end_flag after the loop
EndScan(h, end_index) ==
    IF end_index >= Len(h) \div 2
    THEN IF h[end_index + 1] = h[Len(h)]
         THEN EndScan(h, end_index - 1)
         ELSE FALSE
    ELSE TRUE

\* mutant: the split check does not require the halves to differ
check_trend_no_transition(h, c) ==
    LET start_flag == StartScan(h, 0)
        end_flag == EndScan(h, Len(h) - 1)
    IN  IF c /\ end_flag THEN h[Len(h)]
        ELSE IF start_flag /\ end_flag THEN h[Len(h)]
             ELSE -1

\* mutant: in continuous mode the newest entry is returned unchecked
check_trend_cont_unchecked(h, c) ==
    LET start_flag == StartScan(h, 0)
        end_flag == EndScan(h, Len(h) - 1)
    IN  IF c THEN h[Len(h)]
        ELSE IF start_flag /\ end_flag
             THEN (IF h[1] # h[Len(h)] THEN h[Len(h)] ELSE -1)
             ELSE -1

\* lines 185-213
check_trend(h, c) ==
    LET start_flag == StartScan(h, 0)
        end_flag == EndScan(h, Len(h) - 1)
    IN  IF c /\ end_flag THEN h[Len(h)]
        ELSE IF start_flag /\ end_flag
             THEN (IF h[1] # h[Len(h)] THEN h[Len(h)] ELSE -1)
             ELSE -1

InitTrend ==
    /\ MainIdle /\ CtlIdle /\ ClassIdle /\ WidthIdle /\ in_cfg = MainCfg
    /\ in_hist \in Histories
    /\ in_cont \in BOOLEAN
    /\ trend = <<>>

debounce ==
    /\ trend = <<>>
    /\ trend' = <<check_trend(in_hist, in_cont)>>
    /\ UNCHANGED <<ctlVars, classVars, in_cfg, in_hist, in_cont, widthVars,
                   mainVars>>

NextTrend == debounce

SpecTrend == InitTrend /\ [][NextTrend]_vars

(***************************************************************************)
(* get_width: the Pulse Sampler.  The two edge waits of one pass yield a   *)
(* measured width; the three correction loops are applied to it.           *)
(***************************************************************************)
\* mutant: one period is subtracted at most once
FoldPeriod_once(w, period) ==
    IF w >= period THEN w - period ELSE w

RECURSIVE FoldPeriod(_, _)
\* lines 100-101
FoldPeriod(w, period) ==
    IF w >= period THEN FoldPeriod(w - period, period) ELSE w

RECURSIVE FoldHigh(_, _, _)
\* lines 102-103
FoldHigh(w, limit, t) ==
    IF w > limit THEN FoldHigh(w - t, limit, t) ELSE w

\* mutant: widths below the band are left as measured
FoldLow_none(w, limit, t) == w

RECURSIVE FoldLow(_, _, _)
\* lines 104-105
FoldLow(w, limit, t) ==
    IF w < limit THEN FoldLow(w + t, limit, t) ELSE w

\* lines 99-105: "Correct for faulty values"
Correct(w, freq, max, min, tol) ==
    LET t == WIDTH_TOL(freq, max, min, tol)
        w1 == FoldPeriod(w, Period(freq))
        w2 == FoldHigh(w1, WIDTH_MAX(freq, max) + t, t)
    IN  FoldLow(w2, WIDTH_MIN(freq, min) - t, t)

InitWidth ==
    /\ MainIdle /\ CtlIdle /\ ClassIdle /\ TrendIdle
    /\ in_cfg \in WidthConfigs
    /\ gw = "loop" /\ i = 0 /\ measured = 0 /\ pwm_width = 0 /\ avg = 0

\* lines 89-107: one pass of the sampling loop
gw_sample ==
    /\ gw = "loop" /\ i < PWM_AVG_NUM
    /\ \E m \in MeasuredWidths :
        /\ measured' = m
        /\ pwm_width' = Correct(m, in_cfg.freq, in_cfg.max, in_cfg.min,
                                in_cfg.tol)
    /\ avg' = avg + pwm_width'
    /\ i' = i + 1
    /\ UNCHANGED <<ctlVars, classVars, in_cfg, trendVars, gw, mainVars>>

\* lines 109-111
gw_return ==
    /\ gw = "loop" /\ i = PWM_AVG_NUM
    /\ avg' = avg \div PWM_AVG_NUM
    /\ gw' = "done"
    /\ UNCHANGED <<ctlVars, classVars, in_cfg, trendVars, i, measured,
                   pwm_width, mainVars>>

NextWidth == gw_sample \/ gw_return

SpecWidth == InitWidth /\ [][NextWidth]_vars

\* main, lines 197-199: set_position applied to the width get_width
\* returned, with the same parameters
gw_classify ==
    /\ gw = "done" /\ pos_cmd = <<>>
    /\ in_width' = avg
    /\ pos_cmd' = <<set_position(avg, in_cfg.freq, in_cfg.max, in_cfg.min,
                                 in_cfg.tol)>>
    /\ UNCHANGED <<ctlVars, in_cfg, trendVars, widthVars, mainVars>>

NextSample == gw_sample \/ gw_return \/ gw_classify

\* the sampler followed by the classifier, in every configuration on which
\* get_width terminates
SpecSample == InitWidth /\ [][NextSample]_vars

(***************************************************************************)
(* main: the polling loop.  Only the shoulder pipeline is live code; the   *)
(* linear and the carousel pipelines of lines 133-183 are commented out.   *)
(* The loop runs get_width, set_position and the history append,           *)
(* check_trend and move_shoulder, each library call step by step as above. *)
(* cycle logs <<actuator, stage>> for every stage of the current           *)
(* iteration.                                                              *)
(***************************************************************************)
\* the pulse widths measured on PIN_SS_IN: quarter steps of the band from
\* duty 3.5 % (below PWM_WID_MIN) up
MainMeasured ==
    {((Period(PWM_WID_FREQ) * 35) \div 1000) * k : k \in 2..MaxMainPulse}

\* mutant: the history is seeded with Max
hist_seed_max == [k \in 1..POS_HIST_NUM |-> Max]

\* lines 112-123: deque((1 for i in range(POS_HIST_NUM)), maxlen = POS_HIST_NUM)
hist_seed == [k \in 1..POS_HIST_NUM |-> 1]

\* mutant: a list append, nothing is evicted
deque_append_unbounded(h, x, maxlen) == Append(h, x)

\* deque.append on a deque with maxlen: the oldest entry is discarded when
\* the deque is full
deque_append(h, x, maxlen) ==
    IF Len(h) >= maxlen THEN Append(Tail(h), x) ELSE Append(h, x)

\* lines 62-124: the pins are set up as outputs, at whatever level they
\* have; ss_avg = 0.0, ss_trend = 0, the history is seeded
InitMain ==
    /\ pc = "idle" /\ fn = "none" /\ cmd = Mid /\ gripper = CS_GRIPPER_NUM
    /\ col = 0 /\ steps = 0 /\ pot_pos = 0 /\ wr = <<>>
    /\ pulses = 0 /\ ret = <<>>
    /\ la_out = [k \in 0..1 |-> LOW]
    /\ cs_out = [k \in 0..1 |-> LOW]
    /\ ss_out \in [0..1 -> Levels]
    /\ in_cfg = MainCfg /\ ClassIdle /\ WidthIdle
    /\ in_hist = hist_seed /\ in_cont = SS_CONTINUOUS /\ trend = <<Min>>
    /\ mpc = "top" /\ cycle = <<>> /\ live = <<>>

\* lines 189-191 and 83-87: main calls get_width for the shoulder
m_get_width ==
    /\ mpc = "top"
    /\ mpc' = "get_width"
    /\ cycle' = Append(cycle, <<"shoulder", "get_width">>)
    /\ gw' = "loop" /\ i' = 0 /\ avg' = 0
    /\ UNCHANGED <<ctlVars, classVars, in_cfg, trendVars, measured, pwm_width,
                   live>>

\* lines 89-107: one pass of the sampling loop on PIN_SS_IN
m_sample ==
    /\ mpc = "get_width" /\ gw = "loop" /\ i < PWM_AVG_NUM
    /\ \E m \in MainMeasured :
        /\ measured' = m
        /\ pwm_width' = Correct(m, in_cfg.freq, in_cfg.max, in_cfg.min,
                                in_cfg.tol)
    /\ avg' = avg + pwm_width'
    /\ i' = i + 1
    /\ UNCHANGED <<ctlVars, classVars, in_cfg, trendVars, gw, mainVars>>

\* lines 197-199: ss_cmd_hist.append(set_position(ss_avg, ...))
m_append ==
    /\ mpc = "get_width" /\ gw = "done"
    /\ LET c == set_position(avg, in_cfg.freq, in_cfg.max, in_cfg.min,
                             in_cfg.tol)
       IN  /\ pos_cmd' = <<c>>
           /\ in_hist' = deque_append(in_hist, c, POS_HIST_NUM)
    /\ mpc' = "appended"
    /\ cycle' = cycle \o << <<"shoulder", "set_position">>,
                            <<"shoulder", "append">> >>
    /\ gw' = "idle"
    /\ UNCHANGED <<ctlVars, in_width, in_cfg, in_cont, trend, i, measured,
                   pwm_width, avg, live>>

\* lines 205-207: ss_trend = check_trend(ss_cmd_hist, SS_CONTINUOUS)
m_check_trend ==
    /\ mpc = "appended"
    /\ trend' = <<check_trend(in_hist, in_cont)>>
    /\ mpc' = "trended"
    /\ cycle' = Append(cycle, <<"shoulder", "check_trend">>)
    /\ UNCHANGED <<ctlVars, classVars, in_cfg, in_hist, in_cont, widthVars,
                   live>>

\* lines 213-215 and 316: move_shoulder(ss_trend, PIN_SS_OUT) is entered
m_move_shoulder ==
    /\ mpc = "trended" /\ pc = "idle"
    /\ cmd' = trend[1]
    /\ pc' = IF ShoulderSteps(trend[1]) THEN "ss_step" ELSE "ss_hold"
    /\ fn' = "move_shoulder" /\ col' = 0 /\ wr' = <<>>
    /\ pulses' = 0 /\ ret' = <<>>
    /\ mpc' = "moving"
    /\ cycle' = Append(cycle, <<"shoulder", "move_shoulder">>)
    /\ UNCHANGED <<gripper, steps, pot_pos, pinVars, classVars, in_cfg,
                   trendVars, widthVars, live>>

\* line 129: move_shoulder has returned, while True repeats
m_loop ==
    /\ mpc = "moving" /\ pc = "idle"
    /\ mpc' = "top"
    /\ cycle' = <<>>
    /\ UNCHANGED <<ctlVars, classVars, in_cfg, trendVars, widthVars, live>>

NextMain ==
    \/ m_get_width \/ m_sample \/ gw_return \/ m_append
    \/ m_check_trend \/ m_move_shoulder
    \/ ss_step \/ ss_low \/ ss_hold
    \/ m_loop

SpecMain == InitMain /\ [][NextMain]_vars

(***************************************************************************)
(* The polling loop under either debounce mode.  The *_CONTINUOUS          *)
(* constants of lines 34-36 select the mode of a pipeline; the loop is     *)
(* followed from startup with the mode set to any of them.  get_width is   *)
(* taken in one step, as the in-band average of equal samples, and live    *)
(* records every classification appended since startup.                    *)
(***************************************************************************)
DebounceModes == {LA_CONTINUOUS, CS_CONTINUOUS, SS_CONTINUOUS}

InitPoll ==
    /\ CtlIdle
    /\ in_cfg = MainCfg /\ ClassIdle /\ WidthIdle
    /\ in_hist = hist_seed /\ in_cont \in DebounceModes /\ trend = <<Min>>
    /\ mpc = "top" /\ cycle = <<>> /\ live = <<>>

\* lines 189-199: get_width returns an average, set_position classifies it
\* and the classification is appended to the history
p_append ==
    /\ mpc = "top" /\ Len(live) < MaxPolls
    /\ \E w \in MainMeasured :
        LET c == set_position(w, in_cfg.freq, in_cfg.max, in_cfg.min,
                              in_cfg.tol)
        IN  /\ avg' = w
            /\ pos_cmd' = <<c>>
            /\ in_hist' = deque_append(in_hist, c, POS_HIST_NUM)
            /\ live' = Append(live, c)
    /\ mpc' = "appended"
    /\ cycle' = cycle \o << <<"shoulder", "get_width">>,
                            <<"shoulder", "set_position">>,
                            <<"shoulder", "append">> >>
    /\ UNCHANGED <<ctlVars, in_width, in_cfg, in_cont, trend, gw, i, measured,
                   pwm_width>>

NextPoll ==
    \/ p_append \/ m_check_trend \/ m_move_shoulder
    \/ ss_step \/ ss_low \/ ss_hold
    \/ m_loop

SpecPoll == InitPoll /\ [][NextPoll]_vars

(***************************************************************************)
(* check_trend in split mode over a sliding window.  The window has any    *)
(* fixed length of 2..MaxHistLen entries and starts uniform, as main seeds *)
(* it; every poll cycle appends one command, evicting the oldest, and      *)
(* calls check_trend(hist, False).  Before each call trend still holds the *)
(* result of the cycle before.                                             *)
(***************************************************************************)
SplitModes == {LA_CONTINUOUS, CS_CONTINUOUS}

InitSplit ==
    /\ CtlIdle /\ in_cfg = MainCfg /\ ClassIdle /\ WidthIdle
    /\ \E n \in 2..MaxHistLen : \E a \in Commands :
           in_hist = [k \in 1..n |-> a]
    /\ in_cont \in SplitModes /\ trend = <<>>
    /\ mpc = "top" /\ cycle = <<>> /\ live = <<>>

\* hist.append(cmd) on a deque whose maxlen is its length
s_append ==
    /\ mpc = "top" /\ Len(live) < MaxPolls
    /\ \E c \in Commands :
        /\ in_hist' = deque_append(in_hist, c, Len(in_hist))
        /\ live' = Append(live, c)
    /\ mpc' = "appended"
    /\ UNCHANGED <<ctlVars, classVars, in_cfg, in_cont, trend, widthVars,
                   cycle>>

\* trend = check_trend(hist, cont)
s_check_trend ==
    /\ mpc = "appended"
    /\ trend' = <<check_trend(in_hist, in_cont)>>
    /\ mpc' = "top"
    /\ UNCHANGED <<ctlVars, classVars, in_cfg, in_hist, in_cont, widthVars,
                   cycle, live>>

NextSplit == s_append \/ s_check_trend

SpecSplit == InitSplit /\ [][NextSplit]_vars

(***************************************************************************)
(* Properties.                                                             *)
(***************************************************************************)
AllLow == [k \in 0..1 |-> LOW]
CfgMax == WIDTH_MAX(in_cfg.freq, in_cfg.max)
CfgMin == WIDTH_MIN(in_cfg.freq, in_cfg.min)
CfgTol == WIDTH_TOL(in_cfg.freq, in_cfg.max, in_cfg.min, in_cfg.tol)
CfgPeriod == Period(in_cfg.freq)

\* C1: an Invalid command never causes motion: no GPIO.output of a call of
\* move_linear, move_carousel or move_shoulder with cmd = -1 writes HIGH to
\* a linear-actuator output or to a stepper STEP pin.
C1_InvalidNeverDrives ==
    (cmd = Invalid /\ wr # <<>>) =>
        ~ (wr[3] = HIGH /\ (wr[1] = "la" \/ wr[2] = 1))

\* a move_linear call with Invalid entered with out[1] high has made its
\* first write
C1_Witness ==
    /\ fn = "move_linear" /\ cmd = Invalid /\ pc = "la_hold"
    /\ wr = <<"la", 0, LOW>> /\ la_out[1] = HIGH

\* C2: set_position returns the first matching band, top-down: Max if
\* width >= width_max - tol, else Mid if width >= width_min + tol, else Min
\* if width >= width_min - tol, else Invalid, in every configuration.
C2_FirstMatchWins ==
    pos_cmd # <<>> =>
        /\ (in_width >= CfgMax - CfgTol) => pos_cmd = <<Max>>
        /\ (in_width < CfgMax - CfgTol /\ in_width >= CfgMin + CfgTol)
               => pos_cmd = <<Mid>>
        /\ (in_width < CfgMax - CfgTol /\ in_width < CfgMin + CfgTol
                /\ in_width >= CfgMin - CfgTol) => pos_cmd = <<Min>>
        /\ (in_width < CfgMax - CfgTol /\ in_width < CfgMin + CfgTol
                /\ in_width < CfgMin - CfgTol) => pos_cmd = <<Invalid>>

\* bands overlap (width_min + tol > width_max - tol) and a width inside
\* the Min band's own bounds is classified Max
C2_Witness ==
    /\ pos_cmd = <<Max>>
    /\ CfgMin + CfgTol > CfgMax - CfgTol
    /\ in_width >= CfgMin - CfgTol /\ in_width < CfgMin + CfgTol

\* C3 as stated: the bands cover [width_min - tol, width_max + tol] and
\* every width outside that interval is Invalid (typical configurations).
C3_OutsideIsInvalid ==
    (pos_cmd # <<>> /\ in_cfg.max > in_cfg.min
        /\ in_cfg.tol > 0 /\ in_cfg.tol < 500) =>
        IF in_width >= CfgMin - CfgTol /\ in_width <= CfgMax + CfgTol
        THEN pos_cmd \in {<<Min>>, <<Mid>>, <<Max>>}
        ELSE pos_cmd = <<Invalid>>

\* C3 amended: with duty_max >= duty_min and tol_pct >= 0 a width is
\* Invalid exactly when it is below width_min - tol; every width above
\* width_max + tol is Max.
C3_BelowIsInvalid ==
    (pos_cmd # <<>> /\ in_cfg.max >= in_cfg.min /\ in_cfg.tol >= 0) =>
        /\ (pos_cmd = <<Invalid>>) <=> (in_width < CfgMin - CfgTol)
        /\ (in_width > CfgMax + CfgTol) => pos_cmd = <<Max>>
        /\ pos_cmd \in {<<Invalid>>, <<Min>>, <<Mid>>, <<Max>>}

\* a width above width_max + tol has been classified
C3_Witness ==
    /\ pos_cmd = <<Max>> /\ in_width > CfgMax + CfgTol
    /\ in_cfg.max > in_cfg.min /\ in_cfg.tol > 0

\* every entry of the newest half (indices len//2 .. len-1) is the newest
NewestHalfUniform ==
    \A k \in (Len(in_hist) \div 2) .. (Len(in_hist) - 1) :
        in_hist[k + 1] = in_hist[Len(in_hist)]
\* every entry of the oldest half (indices 0 .. len//2-1) is the oldest
OldestHalfUniform ==
    \A k \in 0 .. (Len(in_hist) \div 2 - 1) : in_hist[k + 1] = in_hist[1]

\* C4: ContinuousCheck: check_trend(hist, True) is the newest entry when
\* every entry of the newest half equals it and Invalid otherwise; a
\* length-5 history ending in 2, 2, 2 yields 2.
C4_ContinuousCheck ==
    (trend # <<>> /\ in_cont) =>
        /\ NewestHalfUniform => trend = <<in_hist[Len(in_hist)]>>
        /\ ~ NewestHalfUniform => trend = <<Invalid>>
        /\ (Len(in_hist) = 5 /\ SubSeq(in_hist, 3, 5) = <<2, 2, 2>>)
               => trend = <<2>>

\* a length-5 history ending in 2, 2, 2 after two other entries returned 2
C4_Witness ==
    /\ in_cont /\ trend = <<2>> /\ Len(in_hist) = 5
    /\ in_hist[1] # 2 /\ in_hist[2] # 2 /\ in_hist[1] # in_hist[2]

\* C5: SplitCheck: check_trend(hist, False) is the newest entry when the
\* oldest half is uniformly the oldest entry, the newest half uniformly the
\* newest entry and the two entries differ, and Invalid in every other case.
C5_SplitCheck ==
    (trend # <<>> /\ ~ in_cont) =>
        IF /\ OldestHalfUniform /\ NewestHalfUniform
           /\ in_hist[1] # in_hist[Len(in_hist)]
        THEN trend = <<in_hist[Len(in_hist)]>>
        ELSE trend = <<Invalid>>

\* an odd-length history split at len//2 returned its newest command
C5_Witness ==
    /\ ~ in_cont /\ Len(in_hist) = 3 /\ in_hist = <<1, 0, 0>>
    /\ trend = <<0>>

\* C6 as stated: in SplitCheck [0,0,0,2,2] and [0,0,2,2,2] return 2 and
\* [1,1,1,1,1] returns Invalid.
C6_SplitExamples ==
    (trend # <<>> /\ ~ in_cont) =>
        /\ in_hist = <<0, 0, 0, 2, 2>> => trend = <<2>>
        /\ in_hist = <<0, 0, 2, 2, 2>> => trend = <<2>>
        /\ in_hist = <<1, 1, 1, 1, 1>> => trend = <<Invalid>>

\* C6 amended: in SplitCheck [0,0,0,2,2] returns Invalid, [0,0,2,2,2]
\* returns 2 and [1,1,1,1,1] returns Invalid.
C6_SplitExamplesAmended ==
    (trend # <<>> /\ ~ in_cont) =>
        /\ in_hist = <<0, 0, 0, 2, 2>> => trend = <<Invalid>>
        /\ in_hist = <<0, 0, 2, 2, 2>> => trend = <<2>>
        /\ in_hist = <<1, 1, 1, 1, 1>> => trend = <<Invalid>>

\* the history [0,0,0,2,2] has been debounced in SplitCheck
C6_Witness ==
    ~ in_cont /\ in_hist = <<0, 0, 0, 2, 2>> /\ trend = <<Invalid>>

\* the period-folded measurement lies in [width_min - tol, width_max + tol]
FoldedInBand ==
    /\ measured % CfgPeriod >= CfgMin - CfgTol
    /\ measured % CfgPeriod <= CfgMax + CfgTol

\* C7 as stated: for a measured width >= period the accumulated width is
\* below one period and congruent to the measured width modulo the period.
C7_FoldedCongruent ==
    (i > 0 /\ measured >= CfgPeriod) =>
        /\ pwm_width < CfgPeriod
        /\ (measured - pwm_width) % CfgPeriod = 0

\* C7 amended: for a measured width >= period the accumulated width is
\* below one period, and it is congruent to the measured width modulo the
\* period exactly when the measured width modulo the period lies in
\* [width_min - tol, width_max + tol].
C7_FoldedCongruentInBand ==
    (i > 0 /\ measured >= CfgPeriod) =>
        /\ pwm_width < CfgPeriod
        /\ ((measured - pwm_width) % CfgPeriod = 0) <=> FoldedInBand

\* a measurement of two periods or more whose remainder is in the band has
\* been accumulated
C7_Witness ==
    /\ i > 0 /\ measured >= 2 * CfgPeriod /\ FoldedInBand
    /\ pwm_width = measured % CfgPeriod

\* C8: move_linear drives the outputs to the command table's row: after the
\* motion is begun the outputs are the row of the command (retract for Max,
\* extend for Min, hold for Mid), and the call returns with both low.
C8_LinearDrivesTableRow ==
    fn = "move_linear" =>
        /\ pc # "raised"
        /\ pc = "la_poll" =>
               la_out = [k \in 0..1 |-> PyGet(PyGet(LA_COMMANDS, cmd), k)]
        /\ pc = "idle" => la_out = AllLow

\* C9: the final hold step of move_linear executes for every trend and
\* every prior pin state: the call always ends with both outputs low.
C9_LinearEndsLow ==
    (fn = "move_linear" /\ pc \in {"idle", "raised"}) => la_out = AllLow

\* C10: when move_shoulder or move_carousel called with Mid or Invalid
\* returns, both DIR and STEP of that controller are low.
C10_StepperHoldLow ==
    (pc = "idle" /\ cmd \in {Mid, Invalid}) =>
        /\ fn = "move_shoulder" => ss_out = AllLow
        /\ fn = "move_carousel" => cs_out = AllLow

\* C11: one move_shoulder call with Max makes exactly one STEP pulse with
\* DIR low, one call with Min exactly one STEP pulse with DIR high, STEP
\* being low again at return; move_carousel with Min makes no STEP pulse.
C11_StepperCommandTable ==
    /\ (fn = "move_shoulder" /\ cmd \in {Min, Max}) =>
        /\ pulses <= 1
        /\ pc = "ss_low" =>
               /\ pulses = 1 /\ ss_out[1] = HIGH
               /\ ss_out[0] = (IF cmd = Max THEN LOW ELSE HIGH)
        /\ pc = "idle" => (pulses = 1 /\ ss_out[1] = LOW)
    /\ (fn = "move_carousel" /\ cmd = Min) => pulses = 0

\* a move_shoulder call with Min has returned after its pulse
C11_Witness ==
    /\ fn = "move_shoulder" /\ cmd = Min /\ pc = "idle" /\ pulses = 1
    /\ ss_out[0] = HIGH /\ ss_out[1] = LOW

\* C12: one move_carousel call with Max and g grippers makes exactly
\* 360 / (g * 1.8) STEP pulses, truncated (100 for g = 2), and returns with
\* both outputs low.
C12_CarouselBurst ==
    (fn = "move_carousel" /\ cmd = Max /\ pc = "idle") =>
        /\ pulses * gripper * CS_STEP_ANGLE <= 360 * 10
        /\ (pulses + 1) * gripper * CS_STEP_ANGLE > 360 * 10
        /\ gripper = 2 => pulses = 100
        /\ cs_out = AllLow

\* a burst for three grippers, where the step count is truncated, is over
C12_Witness ==
    /\ fn = "move_carousel" /\ cmd = Max /\ pc = "idle"
    /\ gripper = 3 /\ pulses = 66

\* C13: move_shoulder returns the updated phase index, a row number of the
\* 8-row half-step table.
C13_PhaseIndexReturned ==
    (fn = "move_shoulder" /\ pc = "idle") =>
        (ret # <<>> /\ ret[1] \in 0..7)

\* C15: closed-loop stopping of move_linear: while the feedback is polled
\* the outputs are on the extend row (Min) or the retract row (Max), an
\* extension ends only on a reading >= upper_limit, and a retraction sets
\* its row and ends only on a reading <= lower_limit.
C15_ClosedLoopStop ==
    fn = "move_linear" =>
        /\ (cmd = Min /\ pc = "la_poll") =>
               la_out = [k \in 0..1 |-> IF k = 0 THEN HIGH ELSE LOW]
        /\ (cmd = Min /\ pc \in {"la_hold", "idle"}) => pot_pos >= UPPER_LIM
        /\ (cmd = Max /\ pc = "la_poll") =>
               la_out = [k \in 0..1 |-> IF k = 0 THEN LOW ELSE HIGH]
        /\ (cmd = Max /\ pc \in {"la_hold", "idle"}) =>
               pot_pos <= LOWER_LIM(LA_STROKE_TARGET)
        /\ cmd = Max => pc # "raised"

\* C20: every corrected sample and the average get_width returns lie in
\* [width_min - tol, width_max + tol], so set_position of a get_width
\* result with the same parameters is never Invalid.
C20_SamplerInRange ==
    /\ i > 0 => (pwm_width >= CfgMin - CfgTol /\ pwm_width <= CfgMax + CfgTol)
    /\ gw = "done" => (avg >= CfgMin - CfgTol /\ avg <= CfgMax + CfgTol)
    /\ pos_cmd # <<>> => pos_cmd # <<Invalid>>

\* an average whose last sample was measured a period or more long, with a
\* remainder below the band, has been classified
C20_Witness ==
    /\ pos_cmd = <<Min>> /\ in_width = avg
    /\ measured >= CfgPeriod /\ measured % CfgPeriod < CfgMin - CfgTol

\* the iteration of main has computed its trend (and may have gone on to
\* move_shoulder and back to the top of the loop)
TrendComputed == mpc \in {"trended", "moving"} \/ (mpc = "top" /\ fn # "none")
\* the classification of this iteration is Invalid, or the history fails
\* the pattern of the active mode
HoldCycle ==
    \/ pos_cmd = <<Invalid>>
    \/ (in_cont /\ ~NewestHalfUniform)
    \/ (~in_cont /\ ~(NewestHalfUniform /\ OldestHalfUniform
                       /\ in_hist[1] # in_hist[Len(in_hist)]))

\* C14: in a poll cycle of main whose classification is Invalid or whose
\* history fails the active debounce pattern, the trend given to
\* move_shoulder is not Min or Max, the call writes no step and raises
\* nothing, and the history ends with the new classification when the loop
\* repeats.
C14_FailuresAbsorbedAsHold ==
    (TrendComputed /\ HoldCycle) =>
        /\ trend \notin {<<Min>>, <<Max>>}
        /\ in_hist[Len(in_hist)] = pos_cmd[1]
        /\ pc # "raised"
        /\ mpc \in {"moving", "top"} =>
               /\ cmd = trend[1]
               /\ pc \in {"ss_hold", "idle"}
               /\ pulses = 0

\* the loop is back at its top after a cycle that classified Max on a
\* history whose newest half was not yet uniform: nothing stepped
C14_Witness ==
    /\ mpc = "top" /\ fn = "move_shoulder" /\ pc = "idle"
    /\ pos_cmd = <<Max>> /\ in_hist[Len(in_hist)] = Max /\ ~NewestHalfUniform
    /\ trend = <<Invalid>> /\ pulses = 0

\* C16: the command history is a ring buffer of capacity N = 5: it starts
\* as Mid repeated N times, always holds exactly N entries, an append
\* drops the oldest entry and keeps the other N-1 in order before the new
\* classification, and no other step of the loop (check_trend, the
\* controller) changes it.
C16_RingBuffer ==
    /\ in_hist = [k \in 1..POS_HIST_NUM |-> Mid]
    /\ [](Len(in_hist) = POS_HIST_NUM)
    /\ [][IF mpc = "get_width" /\ mpc' = "appended"
          THEN /\ in_hist'[POS_HIST_NUM] = pos_cmd'[1]
               /\ \A k \in 1..(POS_HIST_NUM - 1) : in_hist'[k] = in_hist[k + 1]
          ELSE in_hist' = in_hist]_vars

\* every seed has been evicted: the window holds five live classifications
\* in the order they were appended
C16_Witness ==
    /\ mpc = "appended" /\ pos_cmd = <<Max>>
    /\ in_hist = <<Max, Min, Max, Min, Max>>

\* the five stages of one actuator's pipeline, in order
Pipeline(actuator, controller) ==
    << <<actuator, "get_width">>, <<actuator, "set_position">>,
       <<actuator, "append">>, <<actuator, "check_trend">>,
       <<actuator, controller>> >>

\* C19: when an iteration of the main loop ends, it has run the pipelines
\* of the linear actuator, the carousel and the shoulder, each exactly once
\* and in the order get_width, set_position, append, check_trend, move_*.
C19_ThreePipelinesPerIteration ==
    (mpc = "moving" /\ pc = "idle") =>
        cycle = Pipeline("linear", "move_linear")
                \o Pipeline("carousel", "move_carousel")
                \o Pipeline("shoulder", "move_shoulder")

\* the number of newest entries check_trend requires to be equal:
\* indices len//2 .. len-1 of a window of POS_HIST_NUM
NewestHalfLen == POS_HIST_NUM - POS_HIST_NUM \div 2

\* C17 as stated: in both modes the trend is never Min or Max and no
\* controller moves during the first N-1 poll cycles after startup.
C17_NoActuationBeforeWindowFills ==
    Len(live) <= POS_HIST_NUM - 1 =>
        /\ pulses = 0
        /\ TrendComputed => trend \notin {<<Min>>, <<Max>>}

\* C17, amended: in both modes the trend is never Min or Max and no
\* controller moves during the first N - N//2 - 1 poll cycles after
\* startup (2 for N = 5): the newest half of the window, not the whole
\* window, must hold live data.
C17_NoActuationBeforeNewestHalfFills ==
    Len(live) <= NewestHalfLen - 1 =>
        /\ pulses = 0
        /\ TrendComputed => trend \notin {<<Min>>, <<Max>>}

\* the second poll cycle has classified Max twice and ends without a step
C17_Witness ==
    /\ live = <<Max, Max>> /\ mpc = "moving" /\ pc = "idle"
    /\ trend = <<Invalid>> /\ cmd = Invalid /\ pulses = 0

\* C18: in either mode a controller receives trend Min or Max in a poll
\* cycle only if the classifications appended in that cycle and the
\* preceding ones that fill the newest half of the window (3 consecutive
\* cycles for N = 5) all equal that command.
C18_MovesOnlyAfterStable ==
    (TrendComputed /\ (\/ trend \in {<<Min>>, <<Max>>}
                       \/ (mpc # "trended" /\ pulses > 0))) =>
        /\ Len(live) >= NewestHalfLen
        /\ \A k \in (Len(live) - NewestHalfLen + 1) .. Len(live) :
               live[k] = trend[1]
        /\ mpc # "trended" => cmd = trend[1]

\* the split check lets the shoulder step on the third Min in a row
C18_Witness ==
    /\ ~in_cont /\ live = <<Min, Min, Min>>
    /\ mpc = "moving" /\ pc = "idle" /\ cmd = Min /\ pulses = 1

\* trend is one of the commands 0, 1, 2
IsCommand(t) == t \in {<<Min>>, <<Mid>>, <<Max>>}
\* every command appended since startup is the newest one
LiveUniform == \A k \in 1..Len(live) : live[k] = live[Len(live)]
\* a clean transition: the window was uniformly a, every command appended
\* since is b # a.  While a is still in the window the split check returns
\* b exactly when b fills the newest half, i.e. after len - len//2
\* appends; once b fills the window it returns -1.
CleanTransitionOneShot ==
    (mpc = "top" /\ Len(live) >= 1 /\ LiveUniform) =>
        IF Len(live) >= Len(in_hist)
        THEN trend = <<Invalid>>
        ELSE in_hist[1] # live[1] =>
                 trend = (IF Len(live) = Len(in_hist) - Len(in_hist) \div 2
                          THEN <<live[1]>> ELSE <<Invalid>>)

\* C21 as stated: for every window length N >= 2, check_trend(hist, False)
\* never returns a command of {0, 1, 2} on two consecutive poll cycles,
\* and a clean transition from a to b # a yields trend b on exactly one
\* poll cycle, the one where the window is split at len//2.
C21_SplitOneShot ==
    /\ [][(mpc = "appended" /\ mpc' = "top" /\ Len(in_hist) >= 2
           /\ IsCommand(trend)) => ~IsCommand(trend')]_vars
    /\ [](CleanTransitionOneShot)

\* C21, amended: the same for every window length N >= 3; for N = 2 only
\* the clean transition is one-shot.
C21_SplitOneShotFromThree ==
    /\ [][(mpc = "appended" /\ mpc' = "top" /\ Len(in_hist) >= 3
           /\ IsCommand(trend)) => ~IsCommand(trend')]_vars
    /\ [](CleanTransitionOneShot)

\* a window of five Mid has taken Max four times: the third gave trend Max
\* and the fourth gives none
C21_Witness ==
    /\ mpc = "top" /\ in_hist = <<Mid, Max, Max, Max, Max>>
    /\ live = <<Max, Max, Max, Max>> /\ trend = <<Invalid>>

\* the step writes STEP (out[1]) of the named stepper high
DrivesStepHigh(name) == wr' # wr /\ wr' = <<name, 1, HIGH>>
\* the last write of the running call drove STEP of the named stepper high
StepDrivenHigh(name) == pc # "idle" /\ wr = <<name, 1, HIGH>>

\* C22: in every step of move_shoulder and move_carousel the write before
\* the one that drives STEP high is the write of DIR to the direction
\* level of the call's command (shoulder: Min high, Max low; carousel: Max
\* low), DIR holds that level when STEP goes high, and the write after it
\* takes STEP low again without touching DIR.
C22_DirectionSettledBeforeStep ==
    [][/\ DrivesStepHigh("ss") =>
              /\ fn = "move_shoulder" /\ cmd \in {Min, Max}
              /\ wr = <<"ss", 0, IF cmd = Max THEN LOW ELSE HIGH>>
              /\ ss_out[0] = wr[3] /\ ss_out'[0] = wr[3]
              /\ ss_out'[1] = HIGH
       /\ DrivesStepHigh("cs") =>
              /\ fn = "move_carousel" /\ cmd = Max
              /\ wr = <<"cs", 0, LOW>>
              /\ cs_out[0] = LOW /\ cs_out'[0] = LOW
              /\ cs_out'[1] = HIGH
       /\ StepDrivenHigh("ss") =>
              (wr' = <<"ss", 1, LOW>> /\ ss_out' = Output(ss_out, 1, LOW))
       /\ StepDrivenHigh("cs") =>
              (wr' = <<"cs", 1, LOW>> /\ cs_out' = Output(cs_out, 1, LOW))
      ]_vars

\* a Min step of the shoulder holds STEP high with DIR at the
\* counter-clockwise level written just before
C22_Witness ==
    /\ fn = "move_shoulder" /\ cmd = Min /\ pc = "ss_low"
    /\ wr = <<"ss", 1, HIGH>> /\ ss_out = [k \in 0..1 |-> HIGH]

====
